---- MODULE Spec2Model ----
(***************************************************************************)
(* Semantic Triager (Cloudflare Worker): the feedback processing core of   *)
(* src/src/index.ts.  The record store (D1 table "feedback"), the vector   *)
(* index (Vectorize) and the Slack webhook are the shared state; every     *)
(* request handler is a process that is suspended at each awaited external *)
(* call, so one action is one external call plus the local code up to the  *)
(* next await.                                                             *)
(***************************************************************************)
EXTENDS Integers, Sequences, FiniteSets, TLC

VARIABLES
    feedback,   \* D1 table "feedback": a set of rows
    vectors,    \* Vectorize index: a set of entries keyed by id
    slack,      \* what the /escalate request in flight has posted to the Slack webhook
    webhook,    \* env.SLACK_WEBHOOK_URL is configured
    ing,        \* POST /ingest requests in flight: per-request locals
    esc,        \* POST /escalate/:id request in flight: its locals
    last,       \* the /clear, /action, /bulk or /api/insights request just served, and its response
    nrm,        \* analyzeFeedback applied to one classifier response
    srch        \* GET /search request in flight: its locals

vars == <<feedback, vectors, slack, webhook, ing, esc, last, nrm, srch>>

----------------------------------------------------------------------------
(* Bounds of the model *)

\* how many items of MOCK_FEEDBACK the model ingests
NItems == 2
\* longest classifier response, in tokens, that the normalizer is tried on
MaxTokens == 4

----------------------------------------------------------------------------
(* mock-data.ts *)

MOCK_ALL ==
    << [source |-> "discord", id |-> "d001", author |-> "user123",  text |-> "crash on upload"],
       [source |-> "github",  id |-> "g001", author |-> "dev-jane", text |-> "TypeError in ImageUpload"],
       [source |-> "discord", id |-> "d002", author |-> "gamer42",  text |-> "dark mode is great"],
       [source |-> "github",  id |-> "g002", author |-> "security-bob", text |-> "XSS in profile page"] >>

MOCK_FEEDBACK == SubSeq(MOCK_ALL, 1, NItems)

TEAMS == {"engineering", "security", "support", "product", "billing"}

----------------------------------------------------------------------------
(* JavaScript values of the classifier's JSON, and their coercions *)

NULL == "<null>"
Absent == "<undefined>"

\* x || d on a string-or-undefined value: undefined and "" are falsy
OrElse(x, d) == IF x \in {Absent, ""} THEN d ELSE x

\* a JSON value in the urgency field
JAbsent    == [k |-> "absent", v |-> 0]
JNull      == [k |-> "null",   v |-> 0]
JNum(n)    == [k |-> "num",    v |-> n]
JNumStr(n) == [k |-> "numstr", v |-> n]
JText      == [k |-> "text",   v |-> 0]

\* Number(x): undefined and non-numeric text give NaN, null gives 0
ToNumber(x) ==
    CASE x.k = "num"    -> [nan |-> FALSE, v |-> x.v]
      [] x.k = "numstr" -> [nan |-> FALSE, v |-> x.v]
      [] x.k = "null"   -> [nan |-> FALSE, v |-> 0]
      [] OTHER          -> [nan |-> TRUE,  v |-> 0]

\* n || d on a number: NaN and 0 are falsy
NumOrElse(n, d) == IF n.nan \/ n.v = 0 THEN d ELSE n.v

Min(a, b) == IF a < b THEN a ELSE b
Max(a, b) == IF a > b THEN a ELSE b

----------------------------------------------------------------------------
(* Classifier responses.  The text of a response is a sequence of tokens:  *)
(* prose, a code fence, an opening or closing brace, the members of a JSON *)
(* object, a JSON scalar (a number, a string, true) or the JSON null.      *)

NotArray == [isArray |-> FALSE, items |-> <<>>]
ArrayOf(ks) == [isArray |-> TRUE, items |-> ks]

NoMembers ==
    [category |-> Absent, sentiment |-> Absent, urgency |-> JAbsent,
     suggestedTeam |-> Absent, keywords |-> NotArray]

Tok(t) == [t |-> t, m |-> NoMembers]
MembersTok(m) == [t |-> "members", m |-> m]

Prose  == Tok("prose")
Fence  == Tok("fence")
LBrace == Tok("lbrace")
RBrace == Tok("rbrace")
Scalar == Tok("scalar")
JsonNull == Tok("null")

\* env.AI.run either throws or answers with a text (empty when the field is missing)
AIThrow == [threw |-> TRUE, response |-> <<>>]
AIText(s) == [threw |-> FALSE, response |-> s]
AIObject(m) == AIText(<<LBrace, MembersTok(m), RBrace>>)

Positions(s, t) == {i \in 1..Len(s) : s[i].t = t}
SetMin(S) == CHOOSE x \in S : \A y \in S : x <= y
SetMax(S) == CHOOSE x \in S : \A y \in S : x >= y

\* jsonStr.match(/```(?:json)?\s*([\s\S]*?)\s*```/): the text between the first
\* fence and the next one, when there are two
StripFence(s) ==
    LET f == Positions(s, "fence") IN
    IF Cardinality(f) >= 2
    THEN LET f1 == SetMin(f)
             f2 == SetMin(f \ {f1})
         IN SubSeq(s, f1 + 1, f2 - 1)
    ELSE s

\* indexOf('{') .. lastIndexOf('}'), when both are found
SliceBraces(s) ==
    LET lb == Positions(s, "lbrace")
        rb == Positions(s, "rbrace")
    IN IF lb # {} /\ rb # {} THEN SubSeq(s, SetMin(lb), SetMax(rb)) ELSE s

\* JSON.parse, and whether a member of the parsed value can be read at all
JSONParse(s) ==
    CASE Len(s) = 2 /\ s[1] = LBrace /\ s[2] = RBrace ->
            [ok |-> TRUE, m |-> NoMembers]
      [] Len(s) = 3 /\ s[1] = LBrace /\ s[2].t = "members" /\ s[3] = RBrace ->
            [ok |-> TRUE, m |-> s[2].m]
      [] Len(s) = 1 /\ s[1] = Scalar ->
            [ok |-> TRUE, m |-> NoMembers]
      [] OTHER ->
            [ok |-> FALSE, m |-> NoMembers]

\* the fallback of a catch block that answers "urgent" when in doubt
UrgentFallback ==
    [category |-> "Other", sentiment |-> "Negative", urgency |-> 10,
     suggestedTeam |-> "product", keywords |-> <<>>]

DEFAULT_ANALYSIS ==
    [category |-> "Other", sentiment |-> "Neutral", urgency |-> 5,
     suggestedTeam |-> "product", keywords |-> <<>>]

\* the coercion without its clamp: Number(parsed.urgency) || 5
UnclampedUrgency(u) == NumOrElse(ToNumber(u), 5)

\* Math.min(10, Math.max(1, Number(parsed.urgency) || 5))
ClampUrgency(u) == Min(10, Max(1, NumOrElse(ToNumber(u), 5)))

\* parsed.sentiment || 'Neutral'
CoerceSentiment(x) == OrElse(x, "Neutral")

\* the object literal returned from the try block
Coerce(m) ==
    [category      |-> OrElse(m.category, "Other"),
     sentiment     |-> CoerceSentiment(m.sentiment),
     urgency       |-> ClampUrgency(m.urgency),
     suggestedTeam |-> OrElse(m.suggestedTeam, "product"),
     keywords      |-> IF m.keywords.isArray THEN m.keywords.items ELSE <<>>]

analyzeFeedback(ai) ==
    IF ai.threw THEN DEFAULT_ANALYSIS
    ELSE LET parsed == JSONParse(SliceBraces(StripFence(ai.response)))
         IN IF parsed.ok THEN Coerce(parsed.m) ELSE DEFAULT_ANALYSIS

----------------------------------------------------------------------------
(* The record store: table "feedback" *)

Ids(fb) == {row.id : row \in fb}

\* SELECT id FROM feedback WHERE source = ? AND source_id = ?
SelectNewByKey(fb, source, source_id) ==
    {row \in fb : row.source = source /\ row.source_id = source_id /\ row.status = "new"}

\* SELECT id FROM feedback WHERE source = ? AND source_id = ?
SelectByKey(fb, source, source_id) ==
    {row \in fb : row.source = source /\ row.source_id = source_id}

\* the SELECT without its WHERE clause
SelectAnyRow(fb, id) == fb

\* SELECT * FROM feedback WHERE id = ?
SelectById(fb, id) == {row \in fb : row.id = id}

\* the rowid the table gives the next row: one more than the largest in use,
\* so that ids are handed out again after DELETE FROM feedback
NextRowId(fb) == IF fb = {} THEN 1 ELSE SetMax(Ids(fb)) + 1

\* a table without the constraint
NeverConflicts(fb, row) == FALSE

\* the table's uniqueness constraint on (source, source_id)
Conflicts(fb, row) == SelectByKey(fb, row.source, row.source_id) # {}

\* an INSERT that replaces the table by the new row
InsertAlone(fb, row, d1ok) ==
    IF d1ok /\ ~Conflicts(fb, row)
    THEN [ok |-> TRUE, rows |-> {[row EXCEPT !.id = NextRowId(fb)]},
          last_row_id |-> NextRowId(fb)]
    ELSE [ok |-> FALSE, rows |-> fb, last_row_id |-> 0]

\* INSERT INTO feedback (...) VALUES (...): rejected when the store fails or the
\* constraint is violated, else the row is stored under the next rowid
InsertRow(fb, row, d1ok) ==
    IF d1ok /\ ~Conflicts(fb, row)
    THEN [ok |-> TRUE, rows |-> fb \cup {[row EXCEPT !.id = NextRowId(fb)]},
          last_row_id |-> NextRowId(fb)]
    ELSE [ok |-> FALSE, rows |-> fb, last_row_id |-> 0]

----------------------------------------------------------------------------
(* The vector index *)

\* VECTORIZE.upsert([{id, values, metadata}]): the entry replaces one of the same id
InsertEntry(vs, entry) == vs \cup {entry}

\* env.VECTORIZE.upsert: the entry replaces the one of the same id
Upsert(vs, entry) == {v \in vs : v.id # entry.id} \cup {entry}

\* indexFeedback: the embedding is generated from the raw text, and an embedding is
\* represented by the text it was generated from; a failure of the embedding call
\* or of the upsert is caught and leaves the index as it was.  The metadata of an
\* entry (category, sentiment, urgency, text) is read by no handler and is left out.
indexFeedback(vs, id, text, category, sentiment, urgency, outcome) ==
    IF outcome = "ok"
    THEN Upsert(vs, [id |-> id, values |-> text])
    ELSE vs

IndexOutcomes == {"ok", "embedding_throws", "upsert_throws"}

----------------------------------------------------------------------------
(* The single-statement requests (/clear, /action/:id, /bulk) are served in one *)
(* step; `last` holds the request just served and the status of its response,  *)
(* until the next request arrives.                                              *)

NoRequest ==
    [op |-> "none", id |-> 0, action |-> "", category |-> "", status |-> 0,
     insights |-> <<>>]

ClearServed == [NoRequest EXCEPT !.op = "clear", !.status = 200]

\* return json({ success: true }) of /action/:id, whatever the action
ActionServed(id, action) ==
    [NoRequest EXCEPT !.op = "action", !.id = id, !.action = action, !.status = 200]

\* return json({ success: true }) of /bulk, whatever the action
BulkServed(action, category) ==
    [NoRequest EXCEPT !.op = "bulk", !.action = action, !.category = category, !.status = 200]

----------------------------------------------------------------------------
(* POST /ingest *)

IngestReqs == {"a", "b"}

\* the classifier responses that requests served one at a time meet
FencedBug ==
    AIText(<<Prose, Fence, LBrace,
             MembersTok([category |-> "Bug", sentiment |-> "Negative", urgency |-> JNum(12),
                         suggestedTeam |-> "engineering", keywords |-> ArrayOf(<<"crash">>)]),
             RBrace, Fence>>)

\* the classifier responses that interleaved requests meet
RaceResponses == {AIThrow, FencedBug}

SysResponses ==
    { AIThrow,
      AIText(<<Prose>>),
      FencedBug,
      AIObject([category |-> Absent, sentiment |-> "Angry", urgency |-> JNum(0 - 3),
                suggestedTeam |-> "ops", keywords |-> NotArray]),
      AIObject([category |-> "", sentiment |-> "Neutral", urgency |-> JNum(0),
                suggestedTeam |-> Absent, keywords |-> NotArray]),
      AIObject([category |-> "Other", sentiment |-> "", urgency |-> JText,
                suggestedTeam |-> "product", keywords |-> ArrayOf(<<>>)]),
      AIObject(NoMembers) }

\* the locals of a request; the last five fields are its history: whether the
\* classifier call of the item threw, how many rows the request inserted and how
\* many items it skipped, whether it began after a run that completed with no
\* clear since (rerun), and whether no clear has happened since it began (intact)
IdleIngest ==
    [pc |-> "idle", i |-> 0, processed |-> 0, analysis |-> DEFAULT_ANALYSIS,
     last_row_id |-> 0, status |-> 0,
     aiThrew |-> FALSE, created |-> 0, skipped |-> 0, rerun |-> FALSE, intact |-> FALSE,
     unindexed |-> {}]

\* the INSERT with category and sentiment bound in each other's place
NewRowSwapped(item, analysis) ==
    [id |-> 0, raw_text |-> item.text, category |-> analysis.sentiment,
     sentiment |-> analysis.category, urgency_score |-> analysis.urgency,
     source |-> item.source, source_id |-> item.id, author |-> item.author,
     status |-> "new", assigned_team |-> analysis.suggestedTeam, notes |-> NULL]

\* the INSERT with the status bound to acknowledged
NewRowTriaged(item, analysis) ==
    [id |-> 0, raw_text |-> item.text, category |-> analysis.category,
     sentiment |-> analysis.sentiment, urgency_score |-> analysis.urgency,
     source |-> item.source, source_id |-> item.id, author |-> item.author,
     status |-> "acknowledged", assigned_team |-> analysis.suggestedTeam, notes |-> NULL]

\* the row bound to the INSERT statement
NewRow(item, analysis) ==
    [id |-> 0, raw_text |-> item.text, category |-> analysis.category,
     sentiment |-> analysis.sentiment, urgency_score |-> analysis.urgency,
     source |-> item.source, source_id |-> item.id, author |-> item.author,
     status |-> "new", assigned_team |-> analysis.suggestedTeam, notes |-> NULL]

\* processed++ ahead of the `continue`
CountedSkip(processed) == processed + 1

\* what `processed` is after an item whose record was found
AfterSkip(processed) == processed

\* the loop without its processed++
UncountedItem(processed) == processed

\* what `processed` is after an item that was inserted and indexed
AfterItem(processed) == processed + 1

\* the end of one iteration: the next item, or the response after the last one
Continue(q, processed) ==
    LET n == [q EXCEPT !.processed = processed, !.analysis = DEFAULT_ANALYSIS,
                       !.last_row_id = 0, !.aiThrew = FALSE]
    IN IF q.i + 1 > Len(MOCK_FEEDBACK)
       THEN [n EXCEPT !.pc = "done", !.status = 200]
       ELSE [n EXCEPT !.pc = "lookup", !.i = q.i + 1]

\* the request arrives: let processed = 0 and the first iteration begins
IngestStart(r) ==
    /\ ing[r].pc = "idle"
    /\ ing' = [ing EXCEPT ![r] =
                 [IdleIngest EXCEPT !.pc = "lookup", !.i = 1, !.intact = TRUE,
                    !.rerun = \E o \in IngestReqs :
                                 ing[o].intact /\ ing[o].pc \in {"done", "idle"}]]
    /\ last' = NoRequest
    /\ UNCHANGED <<feedback, vectors, slack, webhook, esc, nrm, srch>>

\* const existing = await ...first(); if (existing) continue
IngestLookup(r) ==
    /\ ing[r].pc = "lookup"
    /\ LET item == MOCK_FEEDBACK[ing[r].i]
           existing == SelectByKey(feedback, item.source, item.id)
       IN ing' = [ing EXCEPT ![r] =
                    IF existing # {}
                    THEN Continue([@ EXCEPT !.skipped = @ + 1], AfterSkip(@.processed))
                    ELSE [@ EXCEPT !.pc = "analyze"]]
    /\ UNCHANGED <<feedback, vectors, slack, webhook, esc, last, nrm, srch>>

\* const analysis = await analyzeFeedback(item.text, env)
IngestAnalyze(r, ai) ==
    /\ ing[r].pc = "analyze"
    /\ ing' = [ing EXCEPT ![r] = [@ EXCEPT !.pc = "insert",
                                     !.analysis = analyzeFeedback(ai),
                                     !.aiThrew = ai.threw]]
    /\ UNCHANGED <<feedback, vectors, slack, webhook, esc, last, nrm, srch>>

\* const result = await ...run(): a rejected INSERT throws out of the handler
IngestInsert(r) ==
    /\ ing[r].pc = "insert"
    /\ \E d1ok \in BOOLEAN :
         LET result == InsertRow(feedback, NewRow(MOCK_FEEDBACK[ing[r].i], ing[r].analysis), d1ok)
         IN /\ feedback' = result.rows
            /\ ing' = [ing EXCEPT ![r] =
                         IF result.ok
                         THEN [@ EXCEPT !.pc = "index", !.last_row_id = result.last_row_id,
                                        !.created = @ + 1]
                         ELSE [@ EXCEPT !.pc = "failed", !.status = 500]]
    /\ UNCHANGED <<vectors, slack, webhook, esc, last, nrm, srch>>

\* if (result.meta.last_row_id) await indexFeedback(...); processed++
IngestIndex(r) ==
    /\ ing[r].pc = "index"
    /\ LET q == ing[r]
           item == MOCK_FEEDBACK[q.i]
       IN \E outcome \in IndexOutcomes :
            /\ vectors' = IF q.last_row_id # 0
                           THEN indexFeedback(vectors, q.last_row_id, item.text,
                                              q.analysis.category, q.analysis.sentiment,
                                              q.analysis.urgency, outcome)
                           ELSE vectors
            /\ ing' = [ing EXCEPT ![r] =
                         Continue([q EXCEPT !.unindexed =
                                      IF outcome = "ok" THEN @ \ {q.last_row_id}
                                      ELSE @ \cup {q.last_row_id}],
                                  AfterItem(q.processed))]
    /\ UNCHANGED <<feedback, slack, webhook, esc, last, nrm, srch>>

\* the response has been sent and the request is over
IngestReturn(r) ==
    /\ ing[r].pc \in {"done", "failed"}
    /\ ing' = [ing EXCEPT ![r] =
                 [IdleIngest EXCEPT !.intact = ing[r].intact /\ ing[r].pc = "done"]]
    /\ UNCHANGED <<feedback, vectors, slack, webhook, esc, last, nrm, srch>>

----------------------------------------------------------------------------
(* POST /clear *)

Clear ==
    /\ feedback' = {}
    /\ ing' = [r \in IngestReqs |->
                 [ing[r] EXCEPT !.rerun = FALSE, !.intact = FALSE, !.unindexed = {}]]
    /\ last' = ClearServed
    /\ UNCHANGED <<vectors, slack, webhook, esc, nrm, srch>>

----------------------------------------------------------------------------
(* POST /escalate/:id *)

\* ids a request may name: those the store can hold and one it never holds
RequestIds == 1..(NItems + 1)
EscalateTeams == {"security"}
Notes == {"call the customer"}
EscalateNotes == {Absent} \cup Notes

IdleEscalate ==
    [pc |-> "idle", id |-> 0, team |-> Absent, notes |-> Absent, feedback |-> {},
     status |-> 0, delivered |-> FALSE, notified |-> "none", updated |-> FALSE]

\* the UPDATE without its urgency override
EscalateKeepUrgency(row, team, notes) ==
    [row EXCEPT !.status = "escalated", !.assigned_team = team, !.notes = OrElse(notes, NULL)]

\* UPDATE feedback SET status = 'escalated', assigned_team = ?, urgency_score = 10, notes = ?
EscalateSet(row, team, notes) ==
    [row EXCEPT !.status = "escalated", !.assigned_team = team,
                !.urgency_score = 10, !.notes = OrElse(notes, NULL)]

SlackOutcomes == {"ok", "not_ok", "throws"}

\* sendSlackNotification: whether the webhook is called at all
SlackCalled(configured, teamId) == configured /\ teamId \in TEAMS

\* sendSlackNotification: the way it ends, given how the webhook call ends
sendSlackNotification(configured, teamId, outcome) ==
    IF ~configured THEN "unconfigured"
    ELSE IF teamId \notin TEAMS THEN "no_team"
    ELSE outcome

\* a handler that answers for the notification
EscalateUnlessSilent(sent) == IF sent THEN 200 ELSE 502

\* the status of the response after the notification: its result is dropped
EscalateResponse(sent) == 200

\* the request arrives with its path id and body
EscalateStart(id, team, notes) ==
    /\ esc.pc = "idle"
    /\ esc' = [IdleEscalate EXCEPT !.pc = "select", !.id = id, !.team = team, !.notes = notes]
    /\ slack' = {}
    /\ last' = NoRequest
    /\ UNCHANGED <<feedback, vectors, webhook, ing, nrm, srch>>

\* const feedback = await ...first(); if (!feedback) return 404
EscalateSelect ==
    /\ esc.pc = "select"
    /\ LET found == SelectById(feedback, esc.id)
       IN esc' = IF found = {}
                 THEN [esc EXCEPT !.pc = "done", !.status = 404]
                 ELSE [esc EXCEPT !.pc = "update", !.feedback = found]
    /\ UNCHANGED <<feedback, vectors, slack, webhook, ing, last, nrm, srch>>

\* await ...UPDATE feedback SET ... WHERE id = ?
EscalateUpdate ==
    /\ esc.pc = "update"
    /\ feedback' = {IF row.id = esc.id THEN EscalateSet(row, esc.team, esc.notes) ELSE row :
                        row \in feedback}
    /\ esc' = [esc EXCEPT !.pc = "notify",
                          !.updated = (\E row \in feedback : row.id = esc.id)]
    /\ UNCHANGED <<vectors, slack, webhook, ing, last, nrm, srch>>

\* await sendSlackNotification(...); return json({ success: true })
EscalateNotify ==
    /\ esc.pc = "notify"
    /\ IF SlackCalled(webhook, esc.team)
       THEN \E outcome \in SlackOutcomes :
              /\ slack' = {[id |-> esc.id, team |-> esc.team]}
              /\ esc' = [esc EXCEPT !.pc = "done",
                                    !.status = EscalateResponse(outcome = "ok"),
                                    !.delivered = (outcome = "ok"),
                                    !.notified =
                                        sendSlackNotification(webhook, esc.team, outcome)]
       ELSE /\ slack' = slack
            /\ esc' = [esc EXCEPT !.pc = "done",
                                  !.status = EscalateResponse(FALSE),
                                  !.notified =
                                      sendSlackNotification(webhook, esc.team, "ok")]
    /\ UNCHANGED <<feedback, vectors, webhook, ing, last, nrm, srch>>

\* the response has been sent and the request is over
EscalateReturn ==
    /\ esc.pc = "done"
    /\ esc' = IdleEscalate
    /\ slack' = {}
    /\ UNCHANGED <<feedback, vectors, webhook, ing, last, nrm, srch>>

----------------------------------------------------------------------------
(* POST /action/:id and POST /bulk *)

Actions == {"acknowledge", "resolve", "reopen", "add_note", "archive", "constructor"}
BulkActions == {"acknowledge", "resolve", "archive"}
Categories == {"Bug", "Other"}

\* the own keys of the object literal `updates`
Updates == {"acknowledge", "resolve", "reopen"}

\* keys every object literal inherits from Object.prototype; their values are
\* truthy and are not strings
ObjectPrototype == {"constructor"}

\* updates[action]: the statement of an own key, the inherited value of an
\* inherited key, undefined for any other
UpdatesLookup(action) ==
    IF action \in Updates THEN "statement"
    ELSE IF action \in ObjectPrototype THEN "inherited"
    ELSE "undefined"

\* an acknowledge, resolve or reopen that also erases the note
ActionSetErasingNote(row, action, notes) ==
    CASE action = "acknowledge" -> [row EXCEPT !.status = "acknowledged", !.notes = NULL]
      [] action = "resolve"     -> [row EXCEPT !.status = "resolved", !.notes = NULL]
      [] action = "reopen"      -> [row EXCEPT !.status = "new", !.notes = NULL]
      [] action = "add_note"    -> [row EXCEPT !.notes = notes]
      [] OTHER                  -> row

\* the statements of `updates` held to the edges of the state machine
ActionSetOnEdges(row, action, notes) ==
    CASE action = "acknowledge" /\ row.status = "new" -> [row EXCEPT !.status = "acknowledged"]
      [] action = "resolve" /\ row.status # "resolved" -> [row EXCEPT !.status = "resolved"]
      [] action = "reopen" /\ row.status = "resolved"  -> [row EXCEPT !.status = "new"]
      [] action = "add_note"    -> [row EXCEPT !.notes = notes]
      [] OTHER                  -> row

\* a resolve that also takes the urgency down
ActionSetLoweringUrgency(row, action, notes) ==
    CASE action = "acknowledge" -> [row EXCEPT !.status = "acknowledged"]
      [] action = "resolve"     -> [row EXCEPT !.status = "resolved", !.urgency_score = 1]
      [] action = "reopen"      -> [row EXCEPT !.status = "new"]
      [] action = "add_note"    -> [row EXCEPT !.notes = notes]
      [] OTHER                  -> row

\* the statements of `updates`, and the add_note statement
ActionSet(row, action, notes) ==
    CASE action = "acknowledge" -> [row EXCEPT !.status = "acknowledged"]
      [] action = "resolve"     -> [row EXCEPT !.status = "resolved"]
      [] action = "reopen"      -> [row EXCEPT !.status = "new"]
      [] action = "add_note"    -> [row EXCEPT !.notes = notes]
      [] OTHER                  -> row

\* if (updates[action]) run it; else if (action === 'add_note') run that;
\* return json({ success: true }).  A value that is not a statement makes the
\* database call throw, and the exception leaves the handler.
Action(id, action, notes) ==
    /\ feedback' = IF UpdatesLookup(action) = "inherited"
                   THEN feedback
                   ELSE {IF row.id = id THEN ActionSet(row, action, notes) ELSE row :
                            row \in feedback}
    /\ last' = IF UpdatesLookup(action) = "inherited"
               THEN [ActionServed(id, action) EXCEPT !.status = 500]
               ELSE ActionServed(id, action)
    /\ UNCHANGED <<vectors, slack, webhook, ing, esc, nrm, srch>>

\* a bulk resolve that reaches the new records only
BulkWhereNew(row, action, category) ==
    CASE action = "acknowledge" -> row.category = category /\ row.status = "new"
      [] action = "resolve"     -> row.category = category /\ row.status = "new"
      [] OTHER                  -> FALSE

\* a bulk acknowledge that reaches the records of every status
BulkWhereAnyStatus(row, action, category) ==
    CASE action = "acknowledge" -> row.category = category
      [] action = "resolve"     -> row.category = category
      [] OTHER                  -> FALSE

\* which rows the bulk statement of an action reaches
BulkWhere(row, action, category) ==
    CASE action = "acknowledge" -> row.category = category /\ row.status = "new"
      [] action = "resolve"     -> row.category = category
      [] OTHER                  -> FALSE

Bulk(action, category) ==
    /\ feedback' = {IF BulkWhere(row, action, category)
                     THEN ActionSet(row, action, Absent) ELSE row : row \in feedback}
    /\ last' = BulkServed(action, category)
    /\ UNCHANGED <<vectors, slack, webhook, ing, esc, nrm, srch>>

----------------------------------------------------------------------------
(* GET /api/insights *)

\* the orders in which the store may return a set of rows
Orders(rows) ==
    {f \in [1..Cardinality(rows) -> rows] :
        \A i, j \in 1..Cardinality(rows) : i # j => f[i] # f[j]}

\* ROUND(AVG(urgency_score), 1), in tenths: halves away from zero
RoundedAvg(sum, n) == ((100 * sum) \div n + 5) \div 10

RECURSIVE SumUrgency(_)
\* the sum AVG divides
SumUrgency(rows) ==
    IF rows = {} THEN 0
    ELSE LET row == CHOOSE r \in rows : TRUE
         IN row.urgency_score + SumUrgency(rows \ {row})

\* the columns of one group
GroupRow(fb, category) ==
    LET rows == {row \in fb : row.category = category}
    IN [category |-> category,
        total |-> Cardinality(rows),
        new_count |-> Cardinality({row \in rows : row.status = "new"}),
        avg_urgency |-> RoundedAvg(SumUrgency(rows), Cardinality(rows)),
        positive |-> Cardinality({row \in rows : row.sentiment = "Positive"}),
        negative |-> Cardinality({row \in rows : row.sentiment = "Negative"}),
        neutral |-> Cardinality({row \in rows : row.sentiment = "Neutral"}),
        sources |-> {row.source : row \in rows}]

\* a grouping that has a row for every known category
GroupEvery(fb) ==
    {IF \E row \in fb : row.category = c
     THEN GroupRow(fb, c)
     ELSE [category |-> c, total |-> 0, new_count |-> 0, avg_urgency |-> 0,
           positive |-> 0, negative |-> 0, neutral |-> 0, sources |-> {}] :
        c \in {"Bug", "Other"}}

\* FROM feedback GROUP BY category
GroupBy(fb) == {GroupRow(fb, c) : c \in {row.category : row \in fb}}

\* an order by new_count alone
OrderByNewCount(list) ==
    \A i, j \in 1..Len(list) : i < j => list[i].new_count >= list[j].new_count

\* ORDER BY new_count DESC, avg_urgency DESC
OrderBy(list) ==
    \A i, j \in 1..Len(list) :
        i < j => \/ list[i].new_count > list[j].new_count
                 \/ /\ list[i].new_count = list[j].new_count
                    /\ list[i].avg_urgency >= list[j].avg_urgency

\* the map of the rows to AggregatedInsight
Insight(r) ==
    [category |-> r.category,
     total |-> r.total,
     newCount |-> r.new_count,
     avgUrgency |-> r.avg_urgency,
     sentimentBreakdown |->
         [positive |-> r.positive, negative |-> r.negative, neutral |-> r.neutral],
     topSources |-> r.sources]

\* the lists getAggregatedInsights may return: rows that tie in both keys come
\* in any order
getAggregatedInsights(fb) ==
    {[k \in 1..Len(list) |-> Insight(list[k])] :
        list \in {l \in Orders(GroupBy(fb)) : OrderBy(l)}}

InsightsServed(insights) ==
    [NoRequest EXCEPT !.op = "insights", !.status = 200, !.insights = insights]

\* const insights = await getAggregatedInsights(env); return json({ insights })
Insights ==
    /\ \E d1ok \in BOOLEAN :
         IF d1ok
         THEN \E insights \in getAggregatedInsights(feedback) :
                  last' = InsightsServed(insights)
         ELSE last' = [InsightsServed(<<>>) EXCEPT !.status = 500]
    /\ UNCHANGED <<feedback, vectors, slack, webhook, ing, esc, nrm, srch>>

----------------------------------------------------------------------------
(* GET /search *)

\* Scores of vector matches are in thousandths: 500 is the score 0.5.
MIN_SIMILARITY_THRESHOLD == 500

Scores == {499, 500, 875}

\* url.searchParams.get('q'): null when the parameter is missing
SearchQueries == {NULL, "", "upload crash"}

\* !query
Falsy(query) == query = NULL \/ query = ""

SearchOutcomes == {"ok", "throws"}

IdleSearch ==
    [pc |-> "idle", q |-> NULL, matches |-> {}, vectorResults |-> {}, results |-> <<>>,
     status |-> 0, message |-> FALSE, calls |-> {}, failed |-> "none"]

\* env.VECTORIZE.query: the index holds fewer than topK entries, so every entry
\* is a match, with the score the index gives it
VectorizeQuery(vs, score) == {[id |-> v.id, score |-> score[v.id]] : v \in vs}

\* a filter that drops the matches at the threshold too
FilterAbove(matches) == {m \in matches : m.score > MIN_SIMILARITY_THRESHOLD}

\* .filter(m => m.score >= MIN_SIMILARITY_THRESHOLD)
Filter(matches) == {m \in matches : m.score >= MIN_SIMILARITY_THRESHOLD}

\* Math.round(score * 100)
Round100(score) == (score + 5) \div 10

\* vectorMatch ? Math.round(vectorMatch.score * 100) : 0
Similarity(vectorResults, item) ==
    LET found == {v \in vectorResults : v.id = item.id}
    IN IF found = {} THEN 0 ELSE Round100((CHOOSE v \in found : TRUE).score)

\* a hydration that answers for every candidate, stored or not
HydrateCandidates(fb, ids) ==
    {row \in fb : row.id \in ids} \cup
        {[NewRow(MOCK_FEEDBACK[1], DEFAULT_ANALYSIS) EXCEPT !.id = id] : id \in ids \ Ids(fb)}

\* SELECT * FROM feedback WHERE id IN (...ids)
Hydrate(fb, ids) == {row \in fb : row.id \in ids}

\* a merge that keeps the order of the rows
InsertLast(sorted, x) == sorted \o <<x>>

\* where a stable sort puts x in a list sorted by decreasing similarity
InsertSorted(sorted, x) ==
    LET before == {k \in 1..Len(sorted) : sorted[k].similarity >= x.similarity}
        n == Cardinality(before)
    IN SubSeq(sorted, 1, n) \o <<x>> \o SubSeq(sorted, n + 1, Len(sorted))

RECURSIVE SortBySimilarity(_)
\* .sort((a, b) => b.similarity - a.similarity)
SortBySimilarity(list) ==
    IF list = <<>> THEN <<>>
    ELSE InsertSorted(SortBySimilarity(SubSeq(list, 1, Len(list) - 1)), list[Len(list)])

\* a search that reports a failed vector search as an error
EmptyIsError(q, failed) ==
    [q EXCEPT !.pc = "done", !.vectorResults = {}, !.results = <<>>,
              !.status = IF failed = "none" THEN 200 ELSE 500,
              !.message = TRUE, !.failed = failed]

\* searchSimilarFeedback returned []: the response with no results and a message
EmptyResponse(q, failed) ==
    [q EXCEPT !.pc = "done", !.vectorResults = {}, !.results = <<>>, !.status = 200,
              !.message = TRUE, !.failed = failed]

\* a handler that embeds the query before it looks at it
StartUnchecked(query) ==
    [IdleSearch EXCEPT !.pc = "embed", !.q = query]

\* const query = url.searchParams.get('q'); if (!query) return 400
StartChecked(query) ==
    IF Falsy(query)
    THEN [IdleSearch EXCEPT !.pc = "done", !.q = query, !.status = 400]
    ELSE [IdleSearch EXCEPT !.pc = "embed", !.q = query]

\* the request arrives
SearchStart(query) ==
    /\ srch.pc = "idle"
    /\ srch' = StartChecked(query)
    /\ UNCHANGED <<feedback, vectors, slack, webhook, ing, esc, last, nrm>>

\* const queryEmbedding = await generateEmbedding(query, env), inside the try
SearchEmbed ==
    /\ srch.pc = "embed"
    /\ \E outcome \in SearchOutcomes :
         LET called == [srch EXCEPT !.calls = @ \cup {"embedding"}]
         IN srch' = IF outcome = "throws"
                    THEN EmptyResponse(called, "embedding")
                    ELSE [called EXCEPT !.pc = "query"]
    /\ UNCHANGED <<feedback, vectors, slack, webhook, ing, esc, last, nrm>>

\* const results = await env.VECTORIZE.query(...), the filter, and the empty case
SearchQuery ==
    /\ srch.pc = "query"
    /\ \E outcome \in SearchOutcomes, score \in [{v.id : v \in vectors} -> Scores] :
         LET called == [srch EXCEPT !.calls = @ \cup {"vectorize"}]
             matches == VectorizeQuery(vectors, score)
             filtered == Filter(matches)
         IN srch' = IF outcome = "throws" THEN EmptyResponse(called, "vectorize")
                    ELSE IF filtered = {}
                         THEN EmptyResponse([called EXCEPT !.matches = matches], "none")
                    ELSE [called EXCEPT !.pc = "hydrate", !.matches = matches,
                                        !.vectorResults = filtered]
    /\ UNCHANGED <<feedback, vectors, slack, webhook, ing, esc, last, nrm>>

\* const items = await ...SELECT * FROM feedback WHERE id IN (...); the merge,
\* the sort and the response
SearchHydrate ==
    /\ srch.pc = "hydrate"
    /\ \E d1ok \in BOOLEAN :
         LET called == [srch EXCEPT !.calls = @ \cup {"select"}]
             ids == {v.id : v \in srch.vectorResults}
             items == Hydrate(feedback, ids)
         IN IF d1ok
            THEN \E order \in Orders(items) :
                   srch' = [called EXCEPT
                              !.pc = "done", !.status = 200,
                              !.results = SortBySimilarity(
                                  [k \in 1..Len(order) |->
                                      [item |-> order[k],
                                       similarity |-> Similarity(srch.vectorResults, order[k])]])]
            ELSE srch' = [called EXCEPT !.pc = "done", !.status = 500, !.failed = "select"]
    /\ UNCHANGED <<feedback, vectors, slack, webhook, ing, esc, last, nrm>>

\* the response has been sent and the request is over
SearchReturn ==
    /\ srch.pc = "done"
    /\ srch' = IdleSearch
    /\ UNCHANGED <<feedback, vectors, slack, webhook, ing, esc, last, nrm>>

----------------------------------------------------------------------------
(* The system *)

IdleNormalizer == [ai |-> AIThrow, out |-> DEFAULT_ANALYSIS, done |-> FALSE]

Init ==
    /\ feedback = {}
    /\ vectors = {}
    /\ slack = {}
    /\ webhook = TRUE
    /\ ing = [r \in IngestReqs |-> IdleIngest]
    /\ esc = IdleEscalate
    /\ last = NoRequest
    /\ nrm = IdleNormalizer
    /\ srch = IdleSearch

\* no request is in flight
Quiet == esc.pc = "idle" /\ srch.pc = "idle" /\ \A r \in IngestReqs : ing[r].pc = "idle"

\* the requests are served one at a time
Next ==
    \/ Quiet /\ IngestStart("a")
    \/ IngestLookup("a")
    \/ \E ai \in SysResponses : IngestAnalyze("a", ai)
    \/ IngestInsert("a")
    \/ IngestIndex("a")
    \/ IngestReturn("a")
    \/ Quiet /\ Clear
    \/ \E id \in RequestIds, team \in EscalateTeams, notes \in EscalateNotes :
         Quiet /\ EscalateStart(id, team, notes)
    \/ EscalateSelect
    \/ EscalateUpdate
    \/ EscalateNotify
    \/ EscalateReturn
    \/ \E id \in RequestIds, action \in Actions, notes \in Notes :
         Quiet /\ Action(id, action, notes)
    \/ \E action \in BulkActions, category \in Categories : Quiet /\ Bulk(action, category)
    \/ Quiet /\ Insights

Spec == Init /\ [][Next]_vars

\* ingestion requests interleave at their awaits, and with the bulk clear
NextIngest ==
    \/ \E r \in IngestReqs : IngestStart(r)
    \/ \E r \in IngestReqs : IngestLookup(r)
    \/ \E r \in IngestReqs, ai \in RaceResponses : IngestAnalyze(r, ai)
    \/ \E r \in IngestReqs : IngestInsert(r)
    \/ \E r \in IngestReqs : IngestIndex(r)
    \/ \E r \in IngestReqs : IngestReturn(r)
    \/ Clear

InitIngest ==
    /\ feedback = {}
    /\ vectors = {}
    /\ slack = {}
    /\ webhook = FALSE
    /\ ing = [r \in IngestReqs |-> IdleIngest]
    /\ esc = IdleEscalate
    /\ last = NoRequest
    /\ nrm = IdleNormalizer
    /\ srch = IdleSearch

SpecIngest == InitIngest /\ [][NextIngest]_vars

\* escalations of ingested records, with and without a webhook, to teams of
\* TEAMS and to others
NotifyTeams == {"security", "ops"}

NextNotify ==
    \/ Quiet /\ IngestStart("a")
    \/ IngestLookup("a")
    \/ \E ai \in RaceResponses : IngestAnalyze("a", ai)
    \/ IngestInsert("a")
    \/ IngestIndex("a")
    \/ IngestReturn("a")
    \/ \E id \in RequestIds, team \in NotifyTeams, notes \in EscalateNotes :
         Quiet /\ EscalateStart(id, team, notes)
    \/ EscalateSelect
    \/ EscalateUpdate
    \/ EscalateNotify
    \/ EscalateReturn

InitNotify ==
    /\ feedback = {}
    /\ vectors = {}
    /\ slack = {}
    /\ webhook \in BOOLEAN
    /\ ing = [r \in IngestReqs |-> IdleIngest]
    /\ esc = IdleEscalate
    /\ last = NoRequest
    /\ nrm = IdleNormalizer
    /\ srch = IdleSearch

SpecNotify == InitNotify /\ [][NextNotify]_vars

\* searches interleave at their awaits with an ingestion and with the bulk clear
NextSearch ==
    \/ IngestStart("a")
    \/ IngestLookup("a")
    \/ IngestAnalyze("a", AIThrow)
    \/ IngestInsert("a")
    \/ IngestIndex("a")
    \/ IngestReturn("a")
    \/ Clear
    \/ \E query \in SearchQueries : SearchStart(query)
    \/ SearchEmbed
    \/ SearchQuery
    \/ SearchHydrate
    \/ SearchReturn

SpecSearch == Init /\ [][NextSearch]_vars

\* an escalation interleaves at its awaits with an ingestion and the bulk clear
NextRace ==
    \/ IngestStart("a")
    \/ IngestLookup("a")
    \/ IngestAnalyze("a", AIThrow)
    \/ IngestInsert("a")
    \/ IngestIndex("a")
    \/ IngestReturn("a")
    \/ Clear
    \/ \E id \in RequestIds, team \in EscalateTeams, notes \in EscalateNotes :
         EscalateStart(id, team, notes)
    \/ EscalateSelect
    \/ EscalateUpdate
    \/ EscalateNotify
    \/ EscalateReturn

SpecRace == Init /\ [][NextRace]_vars

\* every handler: the requests are served one at a time, but for the bulk
\* clear, which is served at any await of the others
NextAll ==
    \/ Quiet /\ IngestStart("a")
    \/ IngestLookup("a")
    \/ IngestAnalyze("a", AIThrow)
    \/ IngestInsert("a")
    \/ IngestIndex("a")
    \/ IngestReturn("a")
    \/ Clear
    \/ Quiet /\ EscalateStart(1, "security", Absent)
    \/ EscalateSelect
    \/ EscalateUpdate
    \/ EscalateNotify
    \/ EscalateReturn
    \/ \E action \in {"resolve", "add_note"}, notes \in Notes : Quiet /\ Action(1, action, notes)
    \/ Quiet /\ Bulk("acknowledge", "Other")
    \/ Quiet /\ Insights
    \/ Quiet /\ SearchStart("upload crash")
    \/ SearchEmbed
    \/ SearchQuery
    \/ SearchHydrate
    \/ SearchReturn

SpecAll == Init /\ [][NextAll]_vars

\* one ingestion request at a time, with the bulk clear served at any of its
\* awaits
NextLive ==
    \/ IngestStart("a")
    \/ IngestLookup("a")
    \/ \E ai \in RaceResponses : IngestAnalyze("a", ai)
    \/ IngestInsert("a")
    \/ IngestIndex("a")
    \/ IngestReturn("a")
    \/ Clear

\* every call the handler awaits returns or fails, and the response is sent:
\* a step of the request that can be taken is taken in the end
SpecLive ==
    /\ Init
    /\ [][NextLive]_vars
    /\ WF_vars(IngestLookup("a"))
    /\ WF_vars(\E ai \in RaceResponses : IngestAnalyze("a", ai))
    /\ WF_vars(IngestInsert("a"))
    /\ WF_vars(IngestIndex("a"))
    /\ WF_vars(IngestReturn("a"))

----------------------------------------------------------------------------
(* The normalizer on its own: analyzeFeedback applied to one response *)

Sentiments == {"Positive", "Negative", "Neutral"}

UrgencyValues ==
    {JAbsent, JNull, JText} \cup {JNum(n) : n \in (0 - 3)..12} \cup {JNumStr(n) : n \in {0, 7, 11}}

AllMembers ==
    [category : {Absent, "", "Bug"},
     sentiment : {Absent, "", "Angry"} \cup Sentiments,
     urgency : UrgencyValues,
     suggestedTeam : {Absent, "security", "ops"},
     keywords : {NotArray, ArrayOf(<<"crash", "upload">>)}]

BugMembers ==
    [category |-> "Bug", sentiment |-> "Negative", urgency |-> JNum(8),
     suggestedTeam |-> "engineering", keywords |-> ArrayOf(<<"crash">>)]

TextTokens == {Prose, Fence, LBrace, RBrace, Scalar, JsonNull, MembersTok(BugMembers)}

Texts == UNION {[1..n -> TextTokens] : n \in 0..MaxTokens}

AIResponses ==
    {AIThrow}
    \cup {AIText(s) : s \in Texts}
    \cup {AIText(<<Prose, Fence>> \o s \o <<Fence, Prose>>) : s \in Texts}
    \cup {AIObject(m) : m \in AllMembers}

InitNormalizer ==
    /\ feedback = {}
    /\ vectors = {}
    /\ slack = {}
    /\ webhook = FALSE
    /\ ing = [r \in IngestReqs |-> IdleIngest]
    /\ esc = IdleEscalate
    /\ last = NoRequest
    /\ nrm \in {[ai |-> a, out |-> DEFAULT_ANALYSIS, done |-> FALSE] : a \in AIResponses}
    /\ srch = IdleSearch

Normalize ==
    /\ ~nrm.done
    /\ nrm' = [nrm EXCEPT !.out = analyzeFeedback(nrm.ai), !.done = TRUE]
    /\ UNCHANGED <<feedback, vectors, slack, webhook, ing, esc, last, srch>>

NextNormalizer == Normalize

SpecNormalizer == InitNormalizer /\ [][NextNormalizer]_vars

----------------------------------------------------------------------------
(* Properties *)

Item(r) == MOCK_FEEDBACK[ing[r].i]

KeyOf(row) == <<row.source, row.source_id>>

\* C1: in every reachable state, also when ingestion requests interleave at their
\* awaits, no two records of the store share the same (source, source_id) pair.
C1_UniqueDedupKey ==
    \A x \in feedback, y \in feedback : KeyOf(x) = KeyOf(y) => x = y

\* a request found no record for its item and is about to insert it, while the
\* record has been inserted by another request in the meantime
C1_Witness ==
    \E r \in IngestReqs :
        /\ ing[r].pc = "insert"
        /\ \E row \in feedback : KeyOf(row) = <<Item(r).source, Item(r).id>>

\* C2: an ingestion run that starts after a completed run, with no clear since,
\* ends with processed = 0 and a success response, and the store then holds
\* exactly one record for each item.
C2_DedupIdempotence ==
    \A r \in IngestReqs :
        (ing[r].pc = "done" /\ ing[r].rerun) =>
            /\ ing[r].processed = 0
            /\ ing[r].status = 200
            /\ \A k \in 1..Len(MOCK_FEEDBACK) :
                 Cardinality({row \in feedback :
                     KeyOf(row) = <<MOCK_FEEDBACK[k].source, MOCK_FEEDBACK[k].id>>}) = 1

C2_Witness ==
    \E r \in IngestReqs :
        /\ ing[r].pc = "done"
        /\ ing[r].rerun
        /\ ing[r].skipped = Len(MOCK_FEEDBACK)

\* C3: the count an ingestion request returns is the number of records the request
\* inserted; every item was either skipped or inserted and counted once, so that
\* skipped + processed is the number of items.
C3_ProcessedIsInserted ==
    \A r \in IngestReqs :
        ing[r].pc = "done" =>
            /\ ing[r].processed = ing[r].created
            /\ ing[r].skipped + ing[r].processed = Len(MOCK_FEEDBACK)

\* a response that counts some items and skipped others
C3_Witness ==
    \E r \in IngestReqs :
        /\ ing[r].pc = "done"
        /\ ing[r].processed >= 1
        /\ ing[r].skipped >= 1

\* C4: no failure of classification, persistence or indexing for one item aborts
\* the ingestion request: no request ever ends without its count.
C4_NoItemFailureAborts ==
    \A r \in IngestReqs : ing[r].pc # "failed"

\* C5: a classification call that throws is not fatal: the request goes on to the
\* insert with the fixed default analysis, the record it inserts has category
\* "Other", sentiment "Neutral", urgency 5, team "product" and status "new", and
\* the item is counted as processed.
C5_ClassificationFailureNotFatal ==
    [][\A r \in IngestReqs :
        /\ ing[r].pc = "analyze" => ing'[r].pc \in {"analyze", "insert"}
        /\ (ing[r].pc = "insert" /\ ing[r].aiThrew /\ ing'[r].pc = "index") =>
             \E row \in feedback' \ feedback :
                /\ KeyOf(row) = <<Item(r).source, Item(r).id>>
                /\ row.raw_text = Item(r).text
                /\ row.category = "Other"
                /\ row.sentiment = "Neutral"
                /\ row.urgency_score = 5
                /\ row.assigned_team = "product"
                /\ row.status = "new"
        /\ (ing[r].pc = "index" /\ ing[r].aiThrew /\ ing'[r].pc # "index") =>
             ing'[r].processed = ing[r].processed + 1
      ]_vars

\* the record of an item whose classification threw has been inserted
C5_Witness ==
    \E r \in IngestReqs :
        /\ ing[r].pc = "index"
        /\ ing[r].aiThrew
        /\ \E row \in feedback : row.id = ing[r].last_row_id /\ row.category = "Other"

\* the normalizer's urgency is within [1,10] for every value of the urgency field
UrgencyClampedForAll == \A u \in UrgencyValues : ClampUrgency(u) \in 1..10

\* C6: the normalizer's urgency lies in [1,10] whatever the classifier's urgency
\* field is, and every stored record has 1 <= urgency_score <= 10 after any
\* sequence of ingest, escalate, action, bulk and clear requests.
C6_UrgencyBound ==
    /\ UrgencyClampedForAll
    /\ \A r \in IngestReqs : ing[r].analysis.urgency \in 1..10
    /\ \A row \in feedback : row.urgency_score \in 1..10

\* records stored from a negative urgency (clamped to 1) and from an urgency
\* above 10 (clamped to 10, the record not escalated)
C6_Witness ==
    /\ \E row \in feedback : row.urgency_score = 1
    /\ \E row \in feedback : row.urgency_score = 10 /\ row.assigned_team = "engineering"

\* C7: the sentiment of every stored record is one of Positive, Negative, Neutral:
\* any other sentiment in the classifier's response is replaced by Neutral.
C7_SentimentValid ==
    \A row \in feedback : row.sentiment \in Sentiments

\* a response holds a JSON object when an opening brace is followed by a closing
\* brace with nothing or the members of an object in between
HasObject(s) ==
    \E i \in 1..Len(s), j \in 1..Len(s) :
        /\ s[i] = LBrace
        /\ s[j] = RBrace
        /\ \/ j = i + 1
           \/ j = i + 2 /\ s[i + 1].t = "members"

\* C8: for a classifier response with no JSON object in it (no braces, an
\* unparsable slice, or a call that throws) the normalizer returns exactly
\* {Other, Neutral, 5, product, []}.
C8_MalformedGivesDefault ==
    (nrm.done /\ (nrm.ai.threw \/ ~HasObject(nrm.ai.response))) =>
        nrm.out = [category |-> "Other", sentiment |-> "Neutral", urgency |-> 5,
                   suggestedTeam |-> "product", keywords |-> <<>>]

\* the normalizer has answered a response that has braces but no object
C8_Witness ==
    /\ nrm.done
    /\ ~nrm.ai.threw
    /\ ~HasObject(nrm.ai.response)
    /\ Positions(nrm.ai.response, "lbrace") # {}
    /\ Positions(nrm.ai.response, "rbrace") # {}
    /\ nrm.out.category = "Other"

\* C9: once an escalate request has updated an existing record, whatever its
\* status and urgency were, the record has status escalated, urgency 10 and the
\* team of the request.
C9_EscalationForcesMaxUrgency ==
    (esc.pc = "notify" \/ (esc.pc = "done" /\ esc.status = 200)) =>
        \E row \in feedback :
            /\ row.id = esc.id
            /\ row.status = "escalated"
            /\ row.urgency_score = 10
            /\ row.assigned_team = esc.team

\* a resolved record of urgency 1 has been escalated
C9_Witness ==
    /\ esc.pc = "done"
    /\ esc.status = 200
    /\ \E old \in esc.feedback : old.status = "resolved" /\ old.urgency_score = 1
    /\ \E row \in feedback : row.id = esc.id /\ row.status = "escalated"

\* C10: an escalate request for an id that no record has is answered 404, changes
\* no record and posts no notification.
C10_EscalateNotFound ==
    [][/\ (esc.pc = "select" /\ ~\E row \in feedback : row.id = esc.id) =>
             /\ esc'.pc = "done"
             /\ esc'.status = 404
             /\ feedback' = feedback
             /\ slack' = {}
       /\ esc.status = 404 => (feedback' = feedback /\ slack' = {})
      ]_vars

\* a request was answered 404 while the store holds records
C10_Witness ==
    /\ esc.pc = "done"
    /\ esc.status = 404
    /\ feedback # {}
    /\ slack = {}

\* C11: whatever the notification comes to (no webhook configured, a team that
\* is not in TEAMS, a response that is not OK, a call that throws, or a
\* delivery), the step that makes it leaves the table as the UPDATE left it,
\* with the record escalated, and the request is answered 200.
C11_EscalateIgnoresNotification ==
    [][esc.pc = "notify" =>
          /\ feedback' = feedback
          /\ esc'.status = 200
          /\ esc'.notified \in {"unconfigured", "no_team", "not_ok", "throws", "ok"}
          /\ \E row \in feedback' :
                /\ row.id = esc.id
                /\ row.status = "escalated"
                /\ row.assigned_team = esc.team
                /\ row.urgency_score = 10]_vars

C11_Witness ==
    /\ esc.pc = "done"
    /\ esc.notified = "throws"
    /\ esc.status = 200
    /\ \E row \in feedback : row.id = esc.id /\ row.status = "escalated"

\* the edges of the triage state machine
StatusEdges ==
    {<<"new", "acknowledged">>, <<"new", "escalated">>, <<"new", "resolved">>,
     <<"acknowledged", "escalated">>, <<"acknowledged", "resolved">>,
     <<"escalated", "resolved">>, <<"resolved", "new">>}

\* C12: every step that changes the status of a record takes it along an edge of
\* the triage state machine (new to acknowledged, escalated or resolved;
\* acknowledged to escalated or resolved; escalated to resolved; resolved to
\* new); no other change of status occurs.
C12_OnlyStateMachineEdges ==
    [][\A old \in feedback, new \in feedback' :
          (new.id = old.id /\ KeyOf(new) = KeyOf(old) /\ new.status # old.status) =>
              <<old.status, new.status>> \in StatusEdges]_vars

\* the status each triage action names
C13_Target(action) ==
    CASE action = "acknowledge" -> "acknowledged"
      [] action = "resolve"     -> "resolved"
      [] action = "reopen"      -> "new"

\* C13: an acknowledge, resolve or reopen request for a record is served with
\* success whatever the status of the record was, and leaves the record with
\* the status acknowledged, resolved or new respectively.
C13_ActionsFromAnyStatus ==
    [][(last'.op = "action" /\ last'.action \in {"acknowledge", "resolve", "reopen"}) =>
          /\ last'.status = 200
          /\ \A old \in feedback :
                old.id = last'.id =>
                    [old EXCEPT !.status = C13_Target(last'.action)] \in feedback']_vars

\* a record that was escalated has just been acknowledged
C13_Witness ==
    /\ last.op = "action"
    /\ last.action = "acknowledge"
    /\ \E row \in feedback :
          /\ row.id = last.id
          /\ row.status = "acknowledged"
          /\ row.assigned_team = "security"
          /\ row.urgency_score = 10

\* C14: a served bulk resolve of a category leaves every record of the category
\* resolved, whatever its status was, and every other record as it was.
C14_BulkResolve ==
    [][(last'.op = "bulk" /\ last'.action = "resolve") =>
          /\ last'.status = 200
          /\ feedback' = {IF row.category = last'.category
                           THEN [row EXCEPT !.status = "resolved"]
                           ELSE row : row \in feedback}]_vars

\* an escalated record of the category is now resolved, and a record of another
\* category is not
C14_Witness ==
    /\ last.op = "bulk"
    /\ last.action = "resolve"
    /\ \E row \in feedback :
          /\ row.category = last.category
          /\ row.status = "resolved"
          /\ row.assigned_team = "security"
    /\ \E row \in feedback : row.category # last.category /\ row.status # "resolved"

\* C15: a served bulk acknowledge of a category leaves acknowledged exactly the
\* records of the category whose status was new (and those acknowledged
\* before); escalated and resolved records of the category and the records of
\* other categories are as they were.
C15_BulkAcknowledge ==
    [][(last'.op = "bulk" /\ last'.action = "acknowledge") =>
          /\ last'.status = 200
          /\ feedback' = {IF row.category = last'.category /\ row.status = "new"
                           THEN [row EXCEPT !.status = "acknowledged"]
                           ELSE row : row \in feedback}]_vars

\* two records of the category: the one that was new is acknowledged, the
\* escalated one is still escalated
C15_Witness ==
    /\ last.op = "bulk"
    /\ last.action = "acknowledge"
    /\ \E x \in feedback, y \in feedback :
          /\ x.category = last.category
          /\ y.category = last.category
          /\ x.status = "acknowledged"
          /\ x.assigned_team # "security"
          /\ y.status = "escalated"

\* C16: a served add_note sets the notes of the record and changes no other
\* field and no other record; the served acknowledge, resolve and reopen
\* actions and the bulk actions leave the notes of every record as they were.
C16_NoteSetAndKept ==
    [][/\ (last'.op = "action" /\ last'.action = "add_note") =>
             \E text \in Notes :
                 feedback' = {IF row.id = last'.id THEN [row EXCEPT !.notes = text] ELSE row :
                                 row \in feedback}
       /\ ((last'.op = "action" /\ last'.action \in {"acknowledge", "resolve", "reopen"})
              \/ last'.op = "bulk") =>
             \A old \in feedback :
                 \E new \in feedback' : new.id = old.id /\ new.notes = old.notes]_vars

\* a record that was never escalated carries a note and has just been resolved
\* in bulk
C16_Witness ==
    /\ last.op = "bulk"
    /\ last.action = "resolve"
    /\ \E row \in feedback :
          /\ row.category = last.category
          /\ row.status = "resolved"
          /\ row.notes \in Notes
          /\ row.assigned_team # "security"

\* C17: an action request or a bulk request whose action is none of the known
\* ones changes no record and is answered 200.
C17_UnknownActionIgnored ==
    [][((last'.op = "action" /\
            last'.action \notin {"acknowledge", "resolve", "reopen", "add_note"})
          \/ (last'.op = "bulk" /\ last'.action \notin {"acknowledge", "resolve"})) =>
          (feedback' = feedback /\ last'.status = 200)]_vars

\* C18: a search whose query is missing or empty is answered 400 in the step it
\* arrives in, with no embedding, vector index or table call made, and leaves
\* the table and the index as they were.
C18_EmptyQueryRejected ==
    [][(srch' # srch /\ srch'.pc # "idle" /\ Falsy(srch'.q)) =>
          /\ srch.pc = "idle"
          /\ srch'.pc = "done"
          /\ srch'.status = 400
          /\ srch'.calls = {}
          /\ srch'.results = <<>>
          /\ feedback' = feedback
          /\ vectors' = vectors]_vars

\* an empty query has been rejected while the table and the index hold entries
C18_Witness ==
    /\ srch.pc = "done"
    /\ srch.q = ""
    /\ srch.status = 400
    /\ feedback # {}
    /\ vectors # {}

C20_SearchFailsOpen ==
    (srch.pc = "done" /\ srch.failed \in {"embedding", "vectorize"}) =>
        /\ srch.status = 200
        /\ srch.results = <<>>
        /\ srch.message

\* the vector query has thrown while the index and the table hold entries
C20_Witness ==
    /\ srch.pc = "done"
    /\ srch.failed = "vectorize"
    /\ srch.status = 200
    /\ vectors # {}
    /\ feedback # {}

\* C21: every record a search returns is a row the table held when the search
\* read it; a candidate whose row is gone by then (the clear leaves the index
\* as it is) is left out of the results, and the search is answered 200.
C21_SearchReturnsStoredRecords ==
    [][(srch.pc = "hydrate" /\ srch'.pc = "done" /\ srch'.failed = "none") =>
          /\ srch'.status = 200
          /\ \A k \in 1..Len(srch'.results) : srch'.results[k].item \in feedback
          /\ \A v \in srch.vectorResults :
                (\A row \in feedback : row.id # v.id) =>
                    \A k \in 1..Len(srch'.results) : srch'.results[k].item.id # v.id]_vars

\* a search has been answered with one of its two candidates: the row of the
\* other was not in the table
C21_Witness ==
    /\ srch.pc = "done"
    /\ srch.status = 200
    /\ "select" \in srch.calls
    /\ Cardinality(srch.vectorResults) = 2
    /\ Len(srch.results) = 1

\* C22: every record a search returns carries the score of the match of its
\* own id, times 100 and rounded to the nearest integer (halves up), and the
\* list is in non-increasing order of similarity, whatever the order in
\* which the table returned the rows.
C22_SearchOrder ==
    (srch.pc = "done" /\ srch.status = 200) =>
        /\ \A k \in 1..Len(srch.results) :
              \E m \in srch.matches :
                  /\ m.id = srch.results[k].item.id
                  /\ 10 * srch.results[k].similarity - 5 <= m.score
                  /\ m.score < 10 * srch.results[k].similarity + 5
        /\ \A i, j \in 1..Len(srch.results) :
              i < j => srch.results[i].similarity >= srch.results[j].similarity

\* two records are returned, the one of the higher id first: its match scored
\* 0.875, the other's 0.5
C22_Witness ==
    /\ srch.pc = "done"
    /\ srch.status = 200
    /\ Len(srch.results) = 2
    /\ srch.results[1].item.id > srch.results[2].item.id
    /\ srch.results[1].similarity = 88
    /\ srch.results[2].similarity = 50

RECURSIVE SumTotals(_)
SumTotals(insights) ==
    IF insights = <<>> THEN 0
    ELSE insights[1].total + SumTotals(Tail(insights))

\* C23: the insights served have exactly one entry for each category that some
\* record has and none for any other; the total of an entry is the number of
\* records of its category, its newCount the number of those whose status is
\* new; the totals add up to the number of records.
C23_OneInsightPerCategory ==
    (last.op = "insights" /\ last.status = 200) =>
        LET ins == last.insights
        IN /\ {ins[k].category : k \in 1..Len(ins)} = {row.category : row \in feedback}
           /\ \A i, j \in 1..Len(ins) : ins[i].category = ins[j].category => i = j
           /\ \A k \in 1..Len(ins) :
                 /\ ins[k].total =
                        Cardinality({row \in feedback : row.category = ins[k].category})
                 /\ ins[k].newCount =
                        Cardinality({row \in feedback :
                            row.category = ins[k].category /\ row.status = "new"})
           /\ SumTotals(ins) = Cardinality(feedback)

\* insights of two categories, one of them with no new record
C23_Witness ==
    /\ last.op = "insights"
    /\ last.status = 200
    /\ Len(last.insights) = 2
    /\ \E k \in 1..2 : last.insights[k].newCount = 0 /\ last.insights[k].total = 1

\* C24: the insights served are in decreasing order of newCount, and those of
\* equal newCount in decreasing order of avgUrgency.
C24_InsightsOrder ==
    (last.op = "insights" /\ last.status = 200) =>
        \A i, j \in 1..Len(last.insights) :
            i < j =>
                \/ last.insights[i].newCount > last.insights[j].newCount
                \/ /\ last.insights[i].newCount = last.insights[j].newCount
                   /\ last.insights[i].avgUrgency >= last.insights[j].avgUrgency

\* two categories with as many new records, the more urgent one first
C24_Witness ==
    /\ last.op = "insights"
    /\ last.status = 200
    /\ Len(last.insights) = 2
    /\ last.insights[1].newCount = last.insights[2].newCount
    /\ last.insights[1].avgUrgency > last.insights[2].avgUrgency

\* C25: the UPDATE of an escalate request that has no notes leaves the notes of
\* the record as they were.
C25_EscalateKeepsNotes ==
    [][(esc.pc = "update" /\ esc'.pc = "notify" /\ esc.notes = Absent) =>
          \A old \in feedback :
              old.id = esc.id =>
                  \E new \in feedback' : new.id = old.id /\ new.notes = old.notes]_vars

\* C26: when the urgency of the classifier's object is a number or the text of
\* a number u, the normalizer's urgency is min(10, max(1, u)): 1 for u = 0 and
\* for negative u.
C26_NumericUrgencyClamped ==
    (/\ nrm.done
     /\ ~nrm.ai.threw
     /\ Len(nrm.ai.response) = 3
     /\ nrm.ai.response[1] = LBrace
     /\ nrm.ai.response[2].t = "members"
     /\ nrm.ai.response[3] = RBrace
     /\ nrm.ai.response[2].m.urgency.k \in {"num", "numstr"}) =>
        LET u == nrm.ai.response[2].m.urgency.v
        IN nrm.out.urgency = (IF u > 10 THEN 10 ELSE IF u < 1 THEN 1 ELSE u)

\* C27: in every interleaving of an escalate request with ingestion and clear
\* requests, the request posts a notification and reports success only if its
\* UPDATE changed a record.
C27_EscalationReportedOnlyIfUpdated ==
    (slack # {} \/ (esc.pc = "done" /\ esc.status = 200)) => esc.updated

\* C28: an acknowledge, resolve, reopen or add_note request for an id that no
\* record has is answered with an error and leaves the table as it was.
C28_ActionNotFound ==
    [][(/\ last'.op = "action"
        /\ last'.action \in {"acknowledge", "resolve", "reopen", "add_note"}
        /\ \A row \in feedback : row.id # last'.id) =>
          (last'.status \in 400..499 /\ feedback' = feedback)]_vars

\* the step is the UPDATE of an escalate request for the record
EscalateStep(id) == esc.pc = "update" /\ esc'.pc = "notify" /\ esc.id = id

\* C29: no step changes the id, raw_text, category, sentiment, source,
\* source_id or author of a record; its urgency_score and assigned_team change
\* only in the UPDATE of an escalate request for it, its status and notes only
\* there and in action and bulk requests.
C29_OnlyTriageMutates ==
    [][\A old \in feedback, new \in feedback' :
          new.id = old.id =>
              /\ new.raw_text = old.raw_text
              /\ new.category = old.category
              /\ new.sentiment = old.sentiment
              /\ new.source = old.source
              /\ new.source_id = old.source_id
              /\ new.author = old.author
              /\ (new.urgency_score # old.urgency_score
                     \/ new.assigned_team # old.assigned_team) => EscalateStep(old.id)
              /\ (new.status # old.status \/ new.notes # old.notes) =>
                     (EscalateStep(old.id) \/ last'.op \in {"action", "bulk"})]_vars

\* a record that was escalated and then resolved still has the category and
\* sentiment it was created with
C29_Witness ==
    /\ last.op \in {"action", "bulk"}
    /\ last.action = "resolve"
    /\ \E row \in feedback :
          /\ row.status = "resolved"
          /\ row.assigned_team = "security"
          /\ row.urgency_score = 10
          /\ row.category = "Other"
          /\ row.sentiment = "Angry"
          /\ row.raw_text = MOCK_FEEDBACK[row.id].text

\* C30: when an ingestion request finds a record for its item, the step leaves
\* the table and the vector index as they were and goes on to the next item or
\* to the response, without calling the classifier.
C30_ReingestionLeavesRecord ==
    [][\A r \in IngestReqs :
          (/\ ing[r].pc = "lookup"
           /\ ing'[r] # ing[r]
           /\ \E row \in feedback : KeyOf(row) = <<Item(r).source, Item(r).id>>) =>
              /\ feedback' = feedback
              /\ vectors' = vectors
              /\ ing'[r].pc \in {"lookup", "done"}
              /\ ing'[r].skipped = ing[r].skipped + 1
              /\ ing'[r].processed = ing[r].processed]_vars

\* an ingestion has skipped every item, and a record that was escalated with a
\* note is as the escalation left it
C30_Witness ==
    /\ ing["a"].pc = "done"
    /\ ing["a"].skipped = Len(MOCK_FEEDBACK)
    /\ \E row \in feedback :
          /\ row.status = "escalated"
          /\ row.urgency_score = 10
          /\ row.assigned_team = "security"
          /\ row.notes \in Notes

\* the records of the table that request r inserted and whose indexing has
\* failed or is still to come
NotIndexed(r) ==
    {id \in ing[r].unindexed \cup (IF ing[r].pc = "index" THEN {ing[r].last_row_id} ELSE {}) :
        \E row \in feedback : row.id = id}

\* C31: when indexFeedback fails for an inserted record, the step leaves the
\* table as it was, with the record in status new, counts the item and goes
\* on to the next item or to the response; and no search returns a record
\* whose indexing has failed or is still to come.
C31_IndexFailureSwallowed ==
    [][/\ \A r \in IngestReqs :
             (/\ ing[r].pc = "index"
              /\ ing'[r].pc # "index"
              /\ ing[r].last_row_id \in ing'[r].unindexed) =>
                 /\ feedback' = feedback
                 /\ vectors' = vectors
                 /\ \A row \in feedback : row.id = ing[r].last_row_id => row.status = "new"
                 /\ ing'[r].processed = ing[r].processed + 1
                 /\ ing'[r].pc \in {"lookup", "done"}
       /\ (srch.pc = "hydrate" /\ srch'.pc = "done") =>
             \A k \in 1..Len(srch'.results), r \in IngestReqs :
                 srch'.results[k].item.id \notin NotIndexed(r)]_vars

\* C33: in every reachable state, an entry of the index and a record of the
\* table that have the same id have the same text: the entry was built from
\* the raw_text of the record.
C33_VectorOfSameRecord ==
    \A v \in vectors, row \in feedback : v.id = row.id => v.values = row.raw_text

\* the step is the index step of request r, made for an id its INSERT returned
IndexStep(r) ==
    ing[r].pc = "index" /\ ing'[r].pc # "index" /\ ing[r].last_row_id # 0

C34_OnlyClearDeletes ==
    [][/\ (\E row \in feedback : row.id \notin Ids(feedback')) =>
             (last'.op = "clear" /\ feedback' = {})
       /\ (\E row \in feedback' : row.id \notin Ids(feedback)) =>
             /\ ing["a"].pc = "insert"
             /\ ing'["a"].pc = "index"
             /\ Cardinality(feedback') = Cardinality(feedback) + 1
       /\ (last'.op = "clear" /\ last' # last) => feedback' = {}]_vars

\* after triage requests and a clear, an ingestion has created every item
\* again, with status new
C34_Witness ==
    /\ ing["a"].pc = "done"
    /\ ing["a"].created = Len(MOCK_FEEDBACK)
    /\ Cardinality(feedback) = Len(MOCK_FEEDBACK)
    /\ \A row \in feedback : row.status = "new"
    /\ vectors # {}
    /\ ing["a"].unindexed = Ids(feedback)

\* C35: every record's assigned_team is absent or one of the five TEAMS,
\* whatever suggestedTeam the classifier returned and whatever team an
\* escalate request carried.
C35_TeamValid ==
    \A row \in feedback : row.assigned_team \in TEAMS \cup {NULL}

\* the status values a record can have
Statuses == {"new", "acknowledged", "escalated", "resolved"}

\* C36: every record's status is one of new, acknowledged, escalated and
\* resolved, and a record has status new in the state in which the INSERT of
\* an ingestion has created it.
C36_StatusValid ==
    [][\A row \in feedback' :
           /\ row.status \in Statuses
           /\ row.id \notin Ids(feedback) => row.status = "new"]_vars

\* the INSERT of an ingestion has just created a record, next to one that a
\* triage request has moved on
C36_Witness ==
    /\ ing["a"].pc = "index"
    /\ \E row \in feedback : row.id = ing["a"].last_row_id /\ row.status = "new"
    /\ \E row \in feedback : row.status \in Statuses \ {"new"}

\* the request is between its arrival and its response
InFlight(r) == ing[r].pc \in {"lookup", "analyze", "insert", "index"}

\* the handler of the request has returned its response
Responded(r) == ing[r].pc \in {"done", "failed"}

\* C37, first part: an ingestion request that has arrived responds in the end
C37_Responds == InFlight("a") ~> Responded("a")

\* C37, second part: when the request responds, every item was skipped or went
\* through its insert and its index attempt
C37_RespondsAfterEveryItem ==
    [](Responded("a") => ing["a"].skipped + ing["a"].processed = Len(MOCK_FEEDBACK))

\* C37, third part: from its response on the request inserts no record and
\* writes no vector
C37_NoWriteAfterResponse ==
    [][Responded("a") => (vectors' = vectors /\ feedback' \subseteq feedback)]_vars

\* C37: provided every call it awaits returns or fails, an ingestion request
\* responds in the end, it responds only after every item was skipped or went
\* through its insert and its index attempt, and from its response on it
\* inserts no record and writes no vector.
C37_RunsToCompletion ==
    /\ C37_Responds
    /\ C37_RespondsAfterEveryItem
    /\ C37_NoWriteAfterResponse

====
